---- MODULE Spec2Model ----
(***************************************************************************)
(* Model of the zapcl record core (package zapcl): the Core type with its  *)
(* With / Check / Write / Sync operations, the constructors newCore and    *)
(* NewCore, the flush-error classification knownSyncError, and the         *)
(* sourceLocation field.                                                   *)
(*                                                                         *)
(* Encoders are heap objects: encs maps an encoder identity to its context *)
(* buffer, and a core holds an encoder identity, so that aliasing between  *)
(* a core and its clone is expressible.  sink is the log of the calls     *)
(* made on the zapcore.WriteSyncer during the latest operation, and last   *)
(* records that operation, its arguments and its results; given records    *)
(* the construction's arguments.  Errors are unwrap chains, outermost      *)
(* message first; the nil error is the empty chain.                        *)
(***************************************************************************)
EXTENDS Integers, Sequences, FiniteSets, TLC

VARIABLES given, cores, encs, sink, last, pc, tcore, tlvl, idx, buf

vars == <<given, cores, encs, sink, last, pc, tcore, tlvl, idx, buf>>

(* ------------------------------ bounds --------------------------------- *)

MaxCores == 2

MaxEnc == 4

(* --------------------------- zapcore levels ---------------------------- *)

DebugLevel == 0 - 1

InfoLevel == 0

WarnLevel == 1

ErrorLevel == 2

DPanicLevel == 3

PanicLevel == 4

FatalLevel == 5

Levels == DebugLevel..FatalLevel

levelToSeverity ==
    [l \in Levels |->
        CASE l = DebugLevel  -> "DEBUG"
          [] l = InfoLevel   -> "INFO"
          [] l = WarnLevel   -> "WARNING"
          [] l = ErrorLevel  -> "ERROR"
          [] l = DPanicLevel -> "CRITICAL"
          [] l = PanicLevel  -> "ALERT"
          [] l = FatalLevel  -> "EMERGENCY"]

levelEncoder(lvl) == levelToSeverity[lvl]

(* ------------------------------- errors -------------------------------- *)

NilErr == <<>>

\* fmt.Errorf("<msg>: %w", err)
Errorf(msg, err) == <<msg>> \o err

\* errors.Unwrap
Unwrap(err) == IF err = NilErr THEN NilErr ELSE Tail(err)

\* errors.Is(err, target) for a target that is a plain errno
errorsIs(err, target) == \E i \in DOMAIN err : err[i] = target

knownSyncErrorNoEBADF(err) ==
    \/ errorsIs(err, "EINVAL")
    \/ errorsIs(err, "ENOTSUP")
    \/ errorsIs(err, "ENOTTY")

knownSyncError(err) ==
    \/ errorsIs(err, "EINVAL")
    \/ errorsIs(err, "ENOTSUP")
    \/ errorsIs(err, "ENOTTY")
    \/ errorsIs(err, "EBADF")

\* the errors a sink's Sync may return: nil, the bare errnos, and errnos
\* wrapped in an *os.PathError ("sync /dev/stdout: ...")
FlushErrs ==
    { NilErr, <<"EINVAL">>, <<"ENOTSUP">>, <<"ENOTTY">>, <<"EBADF">>,
      <<"EIO">>, <<"sync /dev/stdout", "ENOTTY">>, <<"sync /dev/stdout", "EIO">> }

\* the flush errors a Write is exercised with
WriteFlushErrs == { NilErr, <<"EINVAL">>, <<"EIO">> }

EncodeErrs == { NilErr, <<"encoder failed">> }

SinkWriteErrs == { NilErr, <<"EPIPE">> }

(* ------------------------------- fields -------------------------------- *)

SourceLocationKey == "logging.googleapis.com/sourceLocation"

\* a value that is not an object marshaler (strings, reflected values)
NoObj == [nil |-> FALSE, file |-> "", line |-> 0, function |-> <<>>]

\* the nil *sourceLocation
NilLoc == [nil |-> TRUE, file |-> "", line |-> 0, function |-> <<>>]

\* what an object marshaler left in the encoder: the sub-keys in the order
\* they were added, and their values
NoEnc == [keys |-> <<>>, file |-> "", line |-> 0, function |-> <<>>]

\* zap.String, zap.Inline, zap.Any (values other than object marshalers are opaque)
PlainField(key, type) == [key |-> key, type |-> type, obj |-> NoObj]

\* filepath.Join(build.Default.GOPATH, "src") + "/", as path segments
GoSrcPrefix == <<"gopath", "src">>

\* runtime.FuncForPC: pc 0 does not resolve
FuncForPC(p) ==
    CASE p = 1 -> [found |-> TRUE,  name |-> <<"gopath", "src", "example.com/app.Run">>]
      [] p = 2 -> [found |-> TRUE,  name |-> <<"main.main">>]
      [] OTHER -> [found |-> FALSE, name |-> <<>>]

IsPrefix(pre, s) ==
    /\ Len(pre) <= Len(s)
    /\ \A i \in 1..Len(pre) : s[i] = pre[i]

\* strings.TrimPrefix
TrimPrefix(s, pre) ==
    IF IsPrefix(pre, s) THEN SubSeq(s, Len(pre) + 1, Len(s)) ELSE s

newSource(p, file, line, ok) ==
    IF ~ok
    THEN NilLoc
    ELSE [nil      |-> FALSE,
          file     |-> file,
          line     |-> line,
          function |-> IF FuncForPC(p).found
                       THEN TrimPrefix(FuncForPC(p).name, GoSrcPrefix)
                       ELSE <<>>]

\* zap.Object(SourceLocationKey, newSource(...)): the field is built whatever
\* newSource returns
SourceLocation(p, file, line, ok) ==
    [key |-> SourceLocationKey, type |-> "Object", obj |-> newSource(p, file, line, ok)]

\* (*sourceLocation).MarshalLogObject: l.GetFile() selects the embedded
\* pointer through l, which panics when l is nil
MarshalLogObject(l) ==
    IF l.nil
    THEN [panic |-> TRUE, enc |-> NoEnc]
    ELSE [panic |-> FALSE,
          enc   |-> [keys     |-> <<"file", "line", "function">>,
                     file     |-> l.file,
                     line     |-> l.line,
                     function |-> l.function]]

\* Field.AddTo on an encoder buffer: an Object field adds its key and then
\* runs the marshaler; any other field adds its key and value
AddTo(f, b) ==
    IF f.type = "Object"
    THEN LET m == MarshalLogObject(f.obj)
         IN  IF m.panic
             THEN [panic |-> TRUE, buf |-> b]
             ELSE [panic |-> FALSE, buf |-> Append(b, [key |-> f.key, enc |-> m.enc])]
    ELSE [panic |-> FALSE, buf |-> Append(b, [key |-> f.key, enc |-> NoEnc])]

RECURSIVE addFieldsFrom(_, _, _)
addFieldsFrom(b, fields, i) ==
    IF i > Len(fields)
    THEN [panic |-> FALSE, buf |-> b]
    ELSE LET r == AddTo(fields[i], b)
         IN  IF r.panic THEN r ELSE addFieldsFrom(r.buf, fields, i + 1)

addFields(b, fields) == addFieldsFrom(b, fields, 1)

\* the keys an encoder buffer or an emitted record carries, in order
Keys(b) == [i \in DOMAIN b |-> b[i].key]

KeySet(b) == { b[i].key : i \in DOMAIN b }

Count(b, k) == Cardinality({ i \in DOMAIN b : b[i].key = k })

(* --------------------------- initial fields ---------------------------- *)

\* the bytes of the keys used as initial fields
Bytes(k) ==
    CASE k = "a"  -> <<97>>
      [] k = "ab" -> <<97, 98>>
      [] k = "b"  -> <<98>>

InitKeys == {"a", "ab", "b"}

\* the maps WithInitialFields is given
InitMaps == { {}, {"b", "a"} }

RECURSIVE LexLessFrom(_, _, _)
LexLessFrom(x, y, i) ==
    IF i > Len(y) THEN FALSE
    ELSE IF i > Len(x) THEN TRUE
    ELSE IF x[i] # y[i] THEN x[i] < y[i]
    ELSE LexLessFrom(x, y, i + 1)

\* Go's string order
StringLess(k1, k2) == LexLessFrom(Bytes(k1), Bytes(k2), 1)

RECURSIVE Insert(_, _)
Insert(sorted, k) ==
    IF sorted = <<>> THEN <<k>>
    ELSE IF StringLess(k, Head(sorted)) THEN <<k>> \o sorted
    ELSE <<Head(sorted)>> \o Insert(Tail(sorted), k)

RECURSIVE SortFrom(_, _, _)
SortFrom(keys, i, acc) ==
    IF i > Len(keys) THEN acc ELSE SortFrom(keys, i + 1, Insert(acc, keys[i]))

\* sort.Strings
SortStrings(keys) == SortFrom(keys, 1, <<>>)

\* the orders in which ranging over the map may yield its keys
MapOrders(M) ==
    { f \in [1..Cardinality(M) -> M] : \A i, j \in 1..Cardinality(M) : i # j => f[i] # f[j] }

(* ------------------------------- cores --------------------------------- *)

NilEnab == [nil |-> TRUE, min |-> 0]

LevelEnabler(min) == [nil |-> FALSE, min |-> min]

\* the level filters a core is constructed with
EnabLevels == {WarnLevel}

\* monitoredresource.Detect(): the resource type and log id, and the inlined labels
ResFields ==
    << PlainField("gce_instance", "String"), PlainField("resource.labels", "Inline") >>

\* newCore, given the keys of the initial fields in the order the map yields
\* them.  parent and added are bookkeeping, not fields of Core: the core a
\* core was derived from (0 for a constructed core) and the fields With gave it
newCore(ws, enab, M, order) ==
    LET keys == SortStrings(order)
        fs   == [i \in 1..Len(keys) |-> PlainField(keys[i], "Any")]
    IN  [kind       |-> "Core",
         enab       |-> enab,
         enc        |-> 1,
         ws         |-> ws,
         fields     |-> IF Cardinality(M) > 0 THEN ResFields \o fs ELSE ResFields,
         initFields |-> M,
         parent     |-> 0,
         added      |-> <<>>]

\* NewCore: zapcore.NewCore(core.enc, core.ws, core.LevelEnabler); the
\* returned core has the encoder, the sink and the level filter of core, and
\* nothing else of it
NewCore(ws, enab, M, order) ==
    LET core == newCore(ws, enab, M, order)
    IN  [kind       |-> "ioCore",
         enab       |-> core.enab,
         enc        |-> core.enc,
         ws         |-> core.ws,
         fields     |-> <<>>,
         initFields |-> {},
         parent     |-> 0,
         added      |-> <<>>]

\* c.enc.Clone(): a new encoder (fresh) holding a copy of the buffer
EncoderCloneShared(e, fresh) == e

EncoderClone(e, fresh) == fresh

\* Core.clone: fields, enc and ws are set; LevelEnabler and initFields are not
clone(c, fresh) ==
    [kind       |-> "Core",
     enab       |-> NilEnab,
     enc        |-> EncoderClone(c.enc, fresh),
     ws         |-> c.ws,
     fields     |-> [i \in 1..Len(c.fields) |-> c.fields[i]],
     initFields |-> {},
     parent     |-> 0,
     added      |-> <<>>]

\* c.Enabled(lvl) through the embedded LevelEnabler (a zapcore.Level)
Enabled(c, lvl) == lvl >= c.enab.min

\* Core.Check: the cores registered for the entry after the call
CheckAlways(c, id, lvl, ce) == ce \cup {id}

Check(c, id, lvl, ce) == IF Enabled(c, lvl) THEN ce \cup {id} ELSE ce

\* Core.Sync, given what c.ws.Sync() returned
Sync(flushErr) ==
    IF flushErr # NilErr /\ ~knownSyncError(flushErr)
    THEN Errorf("faild to sync logger", flushErr)
    ELSE NilErr

NoRec == [severity |-> "", fields |-> <<>>]

\* enc.EncodeEntry(ent, fields): works on a clone of the encoder, so the
\* call-site fields never reach the core's encoder; encErr is the error the
\* encoder reports
EncodeEntry(b, lvl, fields, encErr) ==
    LET r == addFields(b, fields)
    IN  IF r.panic THEN [panic |-> TRUE, err |-> NilErr, rec |-> NoRec]
        ELSE IF encErr # NilErr THEN [panic |-> FALSE, err |-> encErr, rec |-> NoRec]
        ELSE [panic |-> FALSE, err |-> NilErr,
              rec |-> [severity |-> levelEncoder(lvl), fields |-> r.buf]]

SinkWrite(ws, rec) == [call |-> "Write", ws |-> ws, rec |-> rec]

SinkSync(ws) == [call |-> "Sync", ws |-> ws, rec |-> NoRec]

NeedSyncFromError(lvl) == lvl >= ErrorLevel

NeedSync(lvl) == lvl > ErrorLevel

\* the part of Core.Write after the merge: encode, write, flush; flushErr is
\* what c.ws.Sync() returns, and the error of c.Sync() is dropped
FinishWriteAnyway(c, merged, lvl, fields, encErr, wsErr, flushErr) ==
    LET e == EncodeEntry(merged, lvl, fields, encErr)
    IN  IF e.panic
        THEN [calls |-> <<>>, ret |-> NilErr, panic |-> TRUE]
        ELSE IF wsErr # NilErr \/ e.err # NilErr
        THEN [calls |-> << SinkWrite(c.ws, e.rec), SinkSync(c.ws) >>,
              ret |-> Errorf("could not write buf", wsErr \o e.err), panic |-> FALSE]
        ELSE IF NeedSync(lvl)
        THEN [calls |-> << SinkWrite(c.ws, e.rec), SinkSync(c.ws) >>,
              ret |-> NilErr, panic |-> FALSE]
        ELSE [calls |-> << SinkWrite(c.ws, e.rec) >>, ret |-> NilErr, panic |-> FALSE]

FinishWrite(c, merged, lvl, fields, encErr, wsErr, flushErr) ==
    LET e == EncodeEntry(merged, lvl, fields, encErr)
    IN  IF e.panic
        THEN [calls |-> <<>>, ret |-> NilErr, panic |-> TRUE]
        ELSE IF e.err # NilErr
        THEN [calls |-> <<>>, ret |-> Errorf("could not encode entry", e.err), panic |-> FALSE]
        ELSE IF wsErr # NilErr
        THEN [calls |-> << SinkWrite(c.ws, e.rec) >>,
              ret |-> Errorf("could not write buf", wsErr), panic |-> FALSE]
        ELSE IF NeedSync(lvl)
        THEN LET dropped == Sync(flushErr)
             IN  [calls |-> << SinkWrite(c.ws, e.rec), SinkSync(c.ws) >>,
                  ret |-> NilErr, panic |-> FALSE]
        ELSE [calls |-> << SinkWrite(c.ws, e.rec) >>, ret |-> NilErr, panic |-> FALSE]

\* the merge loop of Core.Write: every field of c.fields is added to c.enc
MergeFields(c, b) == addFields(b, c.fields).buf

(* ------------------------------- inputs -------------------------------- *)

\* the field lists With is called with
WithInputs ==
    { << PlainField("w1", "String") >>,
      << PlainField("w2", "String") >>,
      << SourceLocation(1, "main.go", 10, FALSE) >> }

\* the call-site field lists Write is called with
CallInputs ==
    { <<>>,
      << SourceLocation(1, "main.go", 10, TRUE) >>,
      << SourceLocation(0, "main.go", 10, TRUE) >>,
      << SourceLocation(1, "main.go", 10, FALSE) >> }

\* the calls Write is exercised with: every level with every outcome of the
\* sink's Sync, the failures of the encoder and of the sink's Write at a level
\* below and a level above ERROR, one fault per call (a second fault would
\* not be reached), and the source-location fields
WriteInputs ==
    { in \in [lvl : Levels, fields : CallInputs, encErr : EncodeErrs,
              wsErr : SinkWriteErrs, flushErr : WriteFlushErrs] :
        /\ Cardinality({ f \in {"fields", "encErr", "wsErr", "flushErr"} :
                           in[f] # <<>> }) <= 1
        /\ in.flushErr # NilErr => in.lvl > ErrorLevel
        /\ (in.encErr # NilErr \/ in.wsErr # NilErr) => in.lvl \in {InfoLevel, FatalLevel}
        /\ in.fields # <<>> => in.lvl = InfoLevel }

Threads == {1, 2}

(* -------------------------------- state -------------------------------- *)

NoOp ==
    [op |-> "New", core |-> 1, lvl |-> InfoLevel, call |-> <<>>,
     encErr |-> NilErr, wsErr |-> NilErr, flushErr |-> NilErr,
     ret |-> NilErr, panic |-> FALSE, encBefore |-> <<>>, reg |-> {}]

Init ==
    /\ \E kind \in {"Core", "ioCore"}, min \in EnabLevels, M \in InitMaps :
         \E order \in MapOrders(M) :
            /\ given = [kind |-> kind, M |-> M]
            /\ cores = << IF kind = "Core"
                          THEN newCore(1, LevelEnabler(min), M, order)
                          ELSE NewCore(1, LevelEnabler(min), M, order) >>
    /\ encs = [e \in 1..MaxCores |-> <<>>]
    /\ sink = <<>>
    /\ last = NoOp
    /\ pc = [t \in Threads |-> "idle"]
    /\ tcore = [t \in Threads |-> 1]
    /\ tlvl = [t \in Threads |-> InfoLevel]
    /\ idx = [t \in Threads |-> 1]
    /\ buf = [t \in Threads |-> <<>>]

threadVars == <<pc, tcore, tlvl, idx, buf>>

\* what the sequential operations leave alone: the construction's arguments
\* and the concurrent callers
otherVars == <<given, threadVars>>

(* ------------------------------ operations ----------------------------- *)

\* d := c.With(F); a panic while adding F leaves no derived core behind
With(c, F) ==
    /\ c \in 1..Len(cores)
    /\ cores[c].kind = "Core"
    /\ Len(cores) < MaxCores
    /\ LET fresh == Len(cores) + 1
           d     == clone(cores[c], fresh)
           encs1 == [encs EXCEPT ![d.enc] = encs[cores[c].enc]]
           r     == addFields(encs1[d.enc], F)
       IN  /\ Len(r.buf) <= MaxEnc
           /\ IF r.panic
              THEN UNCHANGED <<cores, encs>>
              ELSE /\ encs' = [encs1 EXCEPT ![d.enc] = r.buf]
                   /\ cores' = Append(cores, [d EXCEPT !.parent = c, !.added = F])
           /\ last' = [NoOp EXCEPT !.op = "With", !.core = c, !.call = F,
                                   !.panic = r.panic,
                                   !.encBefore = encs[cores[c].enc]]
    /\ sink' = <<>>
    /\ UNCHANGED otherVars

\* c.Check(ent, nil) for an entry of level lvl; c.Enabled panics when the
\* embedded LevelEnabler is nil
CheckOp(c, lvl) ==
    /\ c \in 1..Len(cores)
    /\ cores[c].kind = "Core"
    /\ last' = [NoOp EXCEPT !.op = "Check", !.core = c, !.lvl = lvl,
                            !.panic = cores[c].enab.nil,
                            !.reg = IF cores[c].enab.nil THEN {}
                                    ELSE Check(cores[c], c, lvl, {}),
                            !.encBefore = encs[cores[c].enc]]
    /\ sink' = <<>>
    /\ UNCHANGED <<cores, encs, otherVars>>

\* c.Write(ent, fields) for an entry of level lvl.  The core NewCore returns
\* is zapcore's own core over the same encoder and sink: it encodes, writes
\* and flushes the same way and has no field list to merge
Write(c, lvl, fields, encErr, wsErr, flushErr) ==
    /\ c \in 1..Len(cores)
    /\ LET core   == cores[c]
           merged == MergeFields(core, encs[core.enc])
           r      == FinishWrite(core, merged, lvl, fields, encErr, wsErr, flushErr)
       IN  /\ Len(merged) <= MaxEnc
           /\ encs' = [encs EXCEPT ![core.enc] = merged]
           /\ sink' = r.calls
           /\ last' = [NoOp EXCEPT !.op = "Write", !.core = c, !.lvl = lvl,
                                   !.call = fields, !.encErr = encErr,
                                   !.wsErr = wsErr, !.flushErr = flushErr,
                                   !.ret = r.ret, !.panic = r.panic,
                                   !.encBefore = encs[core.enc]]
    /\ UNCHANGED <<cores, otherVars>>

\* c.Sync(), the sink's Sync returning flushErr
SyncOp(c, flushErr) ==
    /\ c \in 1..Len(cores)
    /\ cores[c].kind = "Core"
    /\ sink' = << SinkSync(cores[c].ws) >>
    /\ last' = [NoOp EXCEPT !.op = "Sync", !.core = c, !.flushErr = flushErr,
                            !.ret = Sync(flushErr),
                            !.encBefore = encs[cores[c].enc]]
    /\ UNCHANGED <<cores, encs, otherVars>>

DoWith == \E c \in 1..MaxCores, F \in WithInputs : With(c, F)

DoCheck == \E c \in 1..MaxCores, lvl \in Levels : CheckOp(c, lvl)

DoWrite ==
    \E c \in 1..MaxCores, in \in WriteInputs :
        Write(c, in.lvl, in.fields, in.encErr, in.wsErr, in.flushErr)

DoSync == \E c \in 1..MaxCores, flushErr \in FlushErrs : SyncOp(c, flushErr)

Next == DoWith \/ DoCheck \/ DoWrite \/ DoSync

Spec == Init /\ [][Next]_vars

(* ------------------------- concurrent callers -------------------------- *)

\* Core.Write has no lock: a caller runs the merge loop field by field on
\* the core's encoder and then encodes.  Adding a field reads the encoder's
\* buffer and stores the extended buffer; two callers doing so at once race.

ConcLevels == {InfoLevel, FatalLevel}

\* caller t enters c.Write(ent, nil)
TStart(t, c, lvl) ==
    /\ pc[t] = "idle"
    /\ c \in 1..Len(cores)
    /\ pc' = [pc EXCEPT ![t] = "merge"]
    /\ tcore' = [tcore EXCEPT ![t] = c]
    /\ tlvl' = [tlvl EXCEPT ![t] = lvl]
    /\ idx' = [idx EXCEPT ![t] = 1]
    /\ UNCHANGED <<given, cores, encs, sink, last, buf>>

\* field.AddTo(c.enc), first half: read the buffer
TLoad(t) ==
    /\ pc[t] = "merge"
    /\ idx[t] <= Len(cores[tcore[t]].fields)
    /\ Len(encs[cores[tcore[t]].enc]) < MaxEnc
    /\ buf' = [buf EXCEPT ![t] = encs[cores[tcore[t]].enc]]
    /\ pc' = [pc EXCEPT ![t] = "store"]
    /\ UNCHANGED <<given, cores, encs, sink, last, tcore, tlvl, idx>>

\* field.AddTo(c.enc), second half: store the extended buffer
TStore(t) ==
    /\ pc[t] = "store"
    /\ encs' = [encs EXCEPT ![cores[tcore[t]].enc] =
                    AddTo(cores[tcore[t]].fields[idx[t]], buf[t]).buf]
    /\ idx' = [idx EXCEPT ![t] = idx[t] + 1]
    /\ buf' = [buf EXCEPT ![t] = <<>>]
    /\ pc' = [pc EXCEPT ![t] = "merge"]
    /\ UNCHANGED <<given, cores, sink, last, tcore, tlvl>>

\* the rest of Write after the loop: encode, write, flush, return
TFinish(t, encErr) ==
    /\ pc[t] = "merge"
    /\ idx[t] > Len(cores[tcore[t]].fields)
    /\ LET core == cores[tcore[t]]
           r    == FinishWrite(core, encs[core.enc], tlvl[t], <<>>, encErr, NilErr, NilErr)
       IN  /\ sink' = r.calls
           /\ last' = [NoOp EXCEPT !.op = "Write", !.core = tcore[t], !.lvl = tlvl[t],
                                   !.encErr = encErr, !.ret = r.ret, !.panic = r.panic,
                                   !.encBefore = encs[core.enc]]
    /\ pc' = [pc EXCEPT ![t] = "idle"]
    /\ idx' = [idx EXCEPT ![t] = 1]
    /\ UNCHANGED <<given, cores, encs, tcore, tlvl, buf>>

DoStart == \E t \in Threads, c \in 1..MaxCores, lvl \in ConcLevels : TStart(t, c, lvl)

DoLoad == \E t \in Threads : TLoad(t)

DoStore == \E t \in Threads : TStore(t)

DoFinish == \E t \in Threads, encErr \in EncodeErrs : TFinish(t, encErr)

NextConc == DoStart \/ DoLoad \/ DoStore \/ DoFinish

SpecConc == Init /\ [][NextConc]_vars

(* ------------------------------- claims -------------------------------- *)

\* the record the last Write handed to the sink
Wrote == last.op = "Write" /\ sink # <<>>

Out == sink[1].rec.fields

RECURSIVE Lineage(_)
\* a core and the cores it was derived from
Lineage(x) == IF cores[x].parent = 0 THEN {x} ELSE {x} \cup Lineage(cores[x].parent)

\* the keys of the fields attached to a core: those of its field list and
\* those given to With along its lineage
Attached(x) ==
    KeySet(cores[x].fields)
        \cup UNION { KeySet(cores[a].added) : a \in Lineage(x) }

Derived == { d \in 1..Len(cores) : cores[d].parent # 0 }

Ascending(M) ==
    CHOOSE s \in MapOrders(M) :
        \A i, j \in 1..Cardinality(M) : i < j => StringLess(s[i], s[j])

\* C2: every record written through the core NewCore returned, given
\* WithInitialFields(M), carries first the resource-type field, then the
\* inlined resource labels, then the keys of M in ascending order.
C2_InitialFieldsInOrder ==
    (Wrote /\ given.kind = "ioCore" /\ given.M # {} /\ last.core = 1) =>
        LET want == << "gce_instance", "resource.labels" >> \o Ascending(given.M)
        IN  /\ Len(Out) >= Len(want)
            /\ SubSeq(Keys(Out), 1, Len(want)) = want

\* the level of the last operation is disabled by its core's level filter
LastDisabled ==
    /\ ~cores[last.core].enab.nil
    /\ last.lvl < cores[last.core].enab.min

\* C3, as stated: a Write of an event whose level is disabled leaves the
\* encoder's buffer unchanged and makes no call on the sink.
C3_DisabledWriteIsNoOp ==
    (last.op = "Write" /\ LastDisabled) =>
        /\ sink = <<>>
        /\ encs[cores[last.core].enc] = last.encBefore

\* C3, amended: a Check of an event whose level is disabled does not register
\* the core for the event, leaves the encoder's buffer unchanged and makes no
\* call on the sink.
C3_DisabledCheckIsNoOp ==
    (last.op = "Check" /\ LastDisabled) =>
        /\ last.reg = {}
        /\ ~last.panic
        /\ sink = <<>>
        /\ encs[cores[last.core].enc] = last.encBefore

C3_Witness == last.op = "Check" /\ LastDisabled /\ last.lvl = InfoLevel

BenignErrnos == {"EINVAL", "ENOTSUP", "ENOTTY", "EBADF"}

Benign(err) == \E i \in DOMAIN err : err[i] \in BenignErrnos

\* C4: Sync returns nil when the sink's flush succeeds or fails with an
\* error matching EINVAL, ENOTSUP, ENOTTY or EBADF, and otherwise an error
\* that wraps the flush error; the sink is flushed once.
C4_SyncClassification ==
    last.op = "Sync" =>
        /\ sink = << SinkSync(cores[last.core].ws) >>
        /\ (last.flushErr = NilErr \/ Benign(last.flushErr)) => last.ret = NilErr
        /\ (last.flushErr # NilErr /\ ~Benign(last.flushErr)) =>
              /\ last.ret # NilErr
              /\ Unwrap(last.ret) = last.flushErr

C4_Witness ==
    /\ last.op = "Sync"
    /\ last.flushErr = <<"EBADF">>
    /\ last.ret = NilErr

AboveError == {DPanicLevel, PanicLevel, FatalLevel}

\* C5: a Write whose encode and sink write succeed flushes the sink once,
\* after the write, exactly when the level is DPANIC, PANIC or FATAL, and
\* returns nil whatever the flush returned.
C5_FlushAboveError ==
    (last.op = "Write" /\ ~last.panic /\ last.encErr = NilErr /\ last.wsErr = NilErr) =>
        /\ last.ret = NilErr
        /\ Len(sink) >= 1
        /\ sink[1].call = "Write"
        /\ last.lvl \in AboveError => (Len(sink) = 2 /\ sink[2].call = "Sync")
        /\ last.lvl \notin AboveError => Len(sink) = 1

C5_Witness ==
    /\ last.op = "Write"
    /\ last.lvl = FatalLevel
    /\ last.flushErr = <<"EIO">>
    /\ Len(sink) = 2
    /\ last.ret = NilErr

\* C6: when the encoder fails, Write returns an error wrapping the encoder's
\* error and makes no call on the sink, at any level; when the sink's write
\* fails, Write returns an error wrapping the sink's error and does not flush.
C6_ErrorsWrapped ==
    (last.op = "Write" /\ ~last.panic) =>
        /\ last.encErr # NilErr =>
              /\ last.ret # NilErr
              /\ Unwrap(last.ret) = last.encErr
              /\ sink = <<>>
        /\ (last.encErr = NilErr /\ last.wsErr # NilErr) =>
              /\ last.ret # NilErr
              /\ Unwrap(last.ret) = last.wsErr
              /\ Len(sink) = 1
              /\ sink[1].call = "Write"

C6_Witness ==
    /\ last.op = "Write"
    /\ last.lvl = FatalLevel
    /\ last.encErr # NilErr
    /\ last.ret # NilErr

\* C7: a Write given SourceLocation(pc, file, line, false) completes and its
\* record has no sourceLocation key; given SourceLocation(pc, file, line,
\* true) the record has the key with file and line set, and an empty function
\* when pc does not resolve.
C7_SourceLocationOmitted ==
    (last.op = "Write" /\ last.encErr = NilErr /\ last.wsErr = NilErr
        /\ Len(last.call) = 1 /\ last.call[1].key = SourceLocationKey) =>
        /\ ~last.panic
        /\ sink # <<>>
        /\ last.call = << SourceLocation(1, "main.go", 10, FALSE) >> =>
              SourceLocationKey \notin KeySet(Out)
        /\ last.call = << SourceLocation(0, "main.go", 10, TRUE) >> =>
              \E i \in DOMAIN Out :
                  /\ Out[i].key = SourceLocationKey
                  /\ Out[i].enc.file = "main.go"
                  /\ Out[i].enc.line = 10
                  /\ Out[i].enc.function = <<>>

\* caller t has merged into the core's encoder and has not encoded yet
Merging(t) == pc[t] = "store" \/ (pc[t] = "merge" /\ idx[t] > 1)

\* C8: no two Write calls on the same core are between their field merge
\* and their encode at the same time.
C8_MergeEncodeAtomic ==
    \A t1, t2 \in Threads :
        (t1 # t2 /\ tcore[t1] = tcore[t2]) => ~(Merging(t1) /\ Merging(t2))

\* C9: a Write leaves the encoder's buffer as it found it, and the record it
\* emits carries each field of the core's list exactly once.
C9_WriteKeepsEncoder ==
    last.op = "Write" =>
        /\ encs[cores[last.core].enc] = last.encBefore
        /\ sink # <<>> =>
              \A i \in DOMAIN cores[last.core].fields :
                  Count(Out, cores[last.core].fields[i].key) = 1

\* C10: a core derived by With has its parent's level filter and field
\* list, and a Check on it completes.
C10_DerivedKeepsFilter ==
    /\ \A d \in Derived :
          /\ cores[d].enab = cores[cores[d].parent].enab
          /\ cores[d].fields = cores[cores[d].parent].fields
    /\ last.op = "Check" => ~last.panic

====
